---- MODULE Spec2Model ----
(***************************************************************************)
(* CRD management of the operator (v2/internal/crdmanagement/manager.go):  *)
(* the installation planner, the comparators, and the leader-coordinated   *)
(* apply engine run by a fleet of replicas against one cluster.            *)
(*                                                                         *)
(* Conventions.  A Go pointer or a Go map that may be nil is a sequence of *)
(* length 0 (nil) or 1 (the value).  A Go string that the code takes apart *)
(* (names matched by patterns) is a sequence of one-character strings.     *)
(***************************************************************************)
EXTENDS Integers, Sequences, FiniteSets, TLC

\* ------------------------------------------------------------------------
\* Bounds of the model.

\* Number of environment faults (involuntary loss of the lease, cancellation
\* of the caller's context, a failing list or write call) in one behaviour.
MaxFaults == 1

\* ------------------------------------------------------------------------
\* Program constants (manager.go:38-47).

ServiceOperatorVersionLabel == "app.kubernetes.io/version"

ServiceOperatorAppLabel == "app.kubernetes.io/name"

ServiceOperatorAppValue == "azure-service-operator"

certMgrInjectCAFromAnnotation == "cert-manager.io/inject-ca-from"

\* ------------------------------------------------------------------------
\* Definitions (apiextensions.CustomResourceDefinition), reduced to the
\* fields manager.go reads or writes.

Nil == <<>>

Ptr(x) == <<x>>

IsNil(p) == p = <<>>

Deref(p) == p[1]

\* The zero value of CustomResourceDefinition: what a Go map lookup of a
\* missing name yields (manager.go:223).
ZeroSpec == [schema |-> "", conversion |-> Nil]

ZeroCRD == [name |-> <<>>, spec |-> ZeroSpec, labels |-> Nil, annotations |-> Nil]

\* spec.conversion with a webhook whose clientConfig names a service.
WebhookConversion(ca, ns) ==
    Ptr([webhook |-> Ptr([clientConfig |->
        Ptr([caBundle |-> ca, service |-> Ptr([namespace |-> ns])])])])

Labels(version) ==
    Ptr((ServiceOperatorAppLabel :> ServiceOperatorAppValue)
        @@ (ServiceOperatorVersionLabel :> version))

MkCRD(name, schema, version, ca) ==
    [name |-> name,
     spec |-> [schema |-> schema, conversion |-> WebhookConversion(ca, <<"a", "s", "o">>)],
     labels |-> Labels(version),
     annotations |-> Nil]

\* ------------------------------------------------------------------------
\* Comparators (manager.go:596-644).

\* ignoreCABundle: the value the argument has after the call.  The argument
\* is a copy of the struct that shares Spec.Conversion with the caller's
\* value; what the caller is left with is ComparatorLeaves.
ignoreCABundle(a) ==
    IF /\ ~IsNil(a.spec.conversion)
       /\ ~IsNil(Deref(a.spec.conversion).webhook)
       /\ ~IsNil(Deref(Deref(a.spec.conversion).webhook).clientConfig)
    THEN [a EXCEPT !.spec.conversion[1].webhook[1].clientConfig[1].caBundle = Nil]
    ELSE a

ignoreConversionWebhook(a) ==
    IF /\ ~IsNil(a.spec.conversion)
       /\ ~IsNil(Deref(a.spec.conversion).webhook)
    THEN [a EXCEPT !.spec.conversion[1].webhook = Nil]
    ELSE a

SpecEqual(a, b) == ignoreCABundle(a).spec = ignoreCABundle(b).spec

SpecEqualIgnoreConversionWebhook(a, b) ==
    ignoreConversionWebhook(a).spec = ignoreConversionWebhook(b).spec

\* Go: v, ok := m[key] on a non-nil map.
HasLabel(crd, key) == key \in DOMAIN Deref(crd.labels)

LabelValue(crd, key) == IF HasLabel(crd, key) THEN Deref(crd.labels)[key] ELSE ""

\* VersionEqual looking only at whether a's labels are nil before it
\* compares the values.
VersionEqualOneSided(a, b) ==
    IF IsNil(a.labels) THEN TRUE
    ELSE IF IsNil(b.labels) THEN FALSE
    ELSE LabelValue(a, ServiceOperatorVersionLabel)
            = LabelValue(b, ServiceOperatorVersionLabel)

VersionEqual(a, b) ==
    IF IsNil(a.labels) /\ IsNil(b.labels) THEN TRUE
    ELSE IF IsNil(a.labels) \/ IsNil(b.labels) THEN FALSE
    ELSE IF /\ ~HasLabel(a, ServiceOperatorVersionLabel)
            /\ ~HasLabel(b, ServiceOperatorVersionLabel) THEN TRUE
    ELSE LabelValue(a, ServiceOperatorVersionLabel)
            = LabelValue(b, ServiceOperatorVersionLabel)

\* A comparator passed to FindMatchingCRDs: one of the named comparators,
\* possibly wrapped by the inverting closure of FindNonMatchingCRDs
\* (manager.go:258-260).
Comparator(cmp, inverted) == [cmp |-> cmp, inverted |-> inverted]

RunNamedComparator(cmp, a, b) ==
    CASE cmp = "VersionEqual" -> VersionEqual(a, b)
      [] cmp = "SpecEqual" -> SpecEqual(a, b)
      [] cmp = "SpecEqualIgnoreConversionWebhook" -> SpecEqualIgnoreConversionWebhook(a, b)

RunComparator(c, a, b) ==
    IF c.inverted THEN ~RunNamedComparator(c.cmp, a, b)
    ELSE RunNamedComparator(c.cmp, a, b)

\* ------------------------------------------------------------------------
\* fixCRDNamespace (manager.go:572-594).  Strings it takes apart or builds
\* are sequences of characters.

\* strings.Split(s, "/"): the pieces between the separators, one more than
\* there are separators.
RECURSIVE Split(_)
Split(str) ==
    IF str = <<>> THEN << <<>> >>
    ELSE LET rest == Split(Tail(str))
         IN IF Head(str) = "/"
            THEN << <<>> >> \o rest
            ELSE << <<Head(str)>> \o Head(rest) >> \o Tail(rest)

\* fmt.Sprintf("%s/%s", a, b).
SlashJoin(a, b) == a \o <<"/">> \o b

\* The webhook service of a definition is configured (manager.go:576-579).
HasWebhookService(crd) ==
    /\ ~IsNil(crd.spec.conversion)
    /\ ~IsNil(Deref(crd.spec.conversion).webhook)
    /\ ~IsNil(Deref(Deref(crd.spec.conversion).webhook).clientConfig)
    /\ ~IsNil(Deref(Deref(Deref(crd.spec.conversion).webhook).clientConfig).service)

\* len(result.Annotations) > 0 and the annotation is there (manager.go:584-585).
HasInjectAnnotation(crd) ==
    /\ ~IsNil(crd.annotations)
    /\ certMgrInjectCAFromAnnotation \in DOMAIN Deref(crd.annotations)

\* The rewrite taking every value with a separator, the pieces after the
\* second being dropped.
fixCRDNamespaceAnyParts(crd, namespace) ==
    LET withService ==
            IF HasWebhookService(crd)
            THEN [crd EXCEPT !.spec.conversion[1].webhook[1].clientConfig[1]
                                  .service[1].namespace = namespace]
            ELSE crd
    IN IF /\ HasInjectAnnotation(crd)
          /\ Len(Split(Deref(crd.annotations)[certMgrInjectCAFromAnnotation])) >= 2
       THEN [withService EXCEPT !.annotations[1][certMgrInjectCAFromAnnotation] =
                SlashJoin(namespace,
                          Split(Deref(crd.annotations)[certMgrInjectCAFromAnnotation])[2])]
       ELSE withService

\* The definition fixCRDNamespace returns.
fixCRDNamespace(crd, namespace) ==
    LET withService ==
            IF HasWebhookService(crd)
            THEN [crd EXCEPT !.spec.conversion[1].webhook[1].clientConfig[1]
                                  .service[1].namespace = namespace]
            ELSE crd
    IN IF /\ HasInjectAnnotation(crd)
          /\ Len(Split(Deref(crd.annotations)[certMgrInjectCAFromAnnotation])) = 2
       THEN [withService EXCEPT !.annotations[1][certMgrInjectCAFromAnnotation] =
                SlashJoin(namespace,
                          Split(Deref(crd.annotations)[certMgrInjectCAFromAnnotation])[2])]
       ELSE withService

\* result := crd.DeepCopy() (manager.go:573): what fixCRDNamespace assigns,
\* it assigns in a definition that shares no pointer or map with its
\* argument.
FixesDeepCopy == TRUE

\* The caller's definition after fixCRDNamespace has returned.
InputAfterFix(crd, namespace) ==
    IF FixesDeepCopy THEN crd ELSE fixCRDNamespace(crd, namespace)

\* ------------------------------------------------------------------------
\* FindMatchingCRDs / FindNonMatchingCRDs (manager.go:204-264).

Range(seq) == {seq[i] : i \in DOMAIN seq}

NamesOf(crds) == {crds[i].name : i \in DOMAIN crds}

\* existingCRDs[name] of manager.go:212-223: the last entry of that name,
\* or the zero value when there is none.
LookupExisting(existing, name) ==
    LET idx == {i \in DOMAIN existing : existing[i].name = name}
    IN IF idx = {} THEN ZeroCRD
       ELSE existing[CHOOSE i \in idx : \A j \in idx : j <= i]

\* The goal entry FindMatchingCRDs compares last with the existing entry
\* of a name.
LastOfGoal(goal, name) ==
    goal[CHOOSE i \in DOMAIN goal :
            /\ goal[i].name = name
            /\ \A j \in DOMAIN goal : goal[j].name = name => j <= i]

\* What a comparator leaves of a definition it was passed: the argument is
\* a copy of the struct, but Spec.Conversion is a pointer, and what
\* ignoreCABundle and ignoreConversionWebhook assign through it
\* (manager.go:599, 607) is assigned in every definition sharing that
\* pointer.
ComparatorLeaves(cmp, crd) ==
    CASE cmp = "VersionEqual" -> crd
      [] cmp = "SpecEqual" -> ignoreCABundle(crd)
      [] cmp = "SpecEqualIgnoreConversionWebhook" -> ignoreConversionWebhook(crd)

\* The loop of manager.go:229-235 on the copies made at manager.go:226-227:
\* the comparators run in order until one returns false, each on what the
\* ones before it left of the two copies.
RECURSIVE RunComparators(_, _, _)
RunComparators(comparators, a, b) ==
    IF comparators = <<>> THEN [equal |-> TRUE, a |-> a, b |-> b]
    ELSE LET c == Head(comparators)
             a2 == ComparatorLeaves(c.cmp, a)
             b2 == ComparatorLeaves(c.cmp, b)
         IN IF ~RunComparator(c, a, b)
            THEN [equal |-> FALSE, a |-> a2, b |-> b2]
            ELSE RunComparators(Tail(comparators), a2, b2)

\* equal of manager.go:229-239: true iff no comparator returned false.
AllComparatorsEqual(comparators, existingCRD, goalCRD) ==
    RunComparators(comparators, existingCRD, goalCRD).equal

\* FindMatchingCRDs passing over the goal entries that have no existing
\* entry instead of comparing them with the zero value.
FindMatchingCRDsOnlyExisting(existing, goal, comparators) ==
    LET hit == {i \in DOMAIN goal :
                    /\ goal[i].name \in NamesOf(existing)
                    /\ AllComparatorsEqual(comparators,
                                           LookupExisting(existing, goal[i].name),
                                           goal[i])}
    IN [n \in {goal[i].name : i \in hit} |->
           goal[CHOOSE i \in hit : /\ goal[i].name = n
                                   /\ \A j \in hit : goal[j].name = n => j <= i]]

\* The result map, as a function from the matching names to the copy of
\* the goal entry stored last under that name, as the comparators left it.
FindMatchingCRDs(existing, goal, comparators) ==
    LET hit == {i \in DOMAIN goal :
                    AllComparatorsEqual(comparators,
                                        LookupExisting(existing, goal[i].name),
                                        goal[i])}
        last(n) == CHOOSE i \in hit : /\ goal[i].name = n
                                      /\ \A j \in hit : goal[j].name = n => j <= i
    IN [n \in {goal[i].name : i \in hit} |->
           RunComparators(comparators,
                          LookupExisting(existing, goal[last(n)].name),
                          goal[last(n)]).b]

InvertComparators(comparators) ==
    [k \in DOMAIN comparators |->
        Comparator(comparators[k].cmp, ~comparators[k].inverted)]

FindNonMatchingCRDs(existing, goal, comparators) ==
    FindMatchingCRDs(existing, goal, InvertComparators(comparators))

\* ------------------------------------------------------------------------
\* Pattern matcher (package internal/util/match) and makeMatchString.

\* Glob match of a pattern against a string, both sequences of characters:
\* "*" matches any run of characters, "?" exactly one.
RECURSIVE GlobMatch(_, _)
GlobMatch(p, s) ==
    IF p = <<>> THEN s = <<>>
    ELSE IF Head(p) = "*"
         THEN GlobMatch(Tail(p), s) \/ (s # <<>> /\ GlobMatch(p, Tail(s)))
    ELSE /\ s # <<>>
         /\ (Head(p) = "?" \/ Head(p) = Head(s))
         /\ GlobMatch(Tail(p), Tail(s))

\* The string a definition is matched by.
makeMatchString(crd) == crd.name

\* matcher.Matches(value).Matched for a pattern spec split into its patterns.
MatcherMatches(patterns, value) ==
    \E k \in DOMAIN patterns : GlobMatch(patterns[k], value)

\* matcher.WasMatched() after every candidate was offered: an error iff
\* some pattern of the spec matched no candidate.
WasMatchedError(patterns, candidates) ==
    \E k \in DOMAIN patterns : \A v \in candidates : ~GlobMatch(patterns[k], v)

\* ------------------------------------------------------------------------
\* DetermineCRDsToInstallOrUpgrade (manager.go:268-329).

\* CRDInstallationInstruction; FilterReason is log text and is left out.
Instruction(crd, filterResult, diffResult) ==
    [CRD |-> crd, FilterResult |-> filterResult, DiffResult |-> diffResult]

\* manager.go:277-286: one entry per goal name, a later goal entry of the
\* same name replacing an earlier one.
SeedResultMap(goalCRDs) ==
    [n \in NamesOf(goalCRDs) |->
        Instruction(goalCRDs[CHOOSE i \in DOMAIN goalCRDs :
                                 /\ goalCRDs[i].name = n
                                 /\ \A j \in DOMAIN goalCRDs :
                                        goalCRDs[j].name = n => j <= i],
                    "Excluded", "NoDifference")]

\* The existing pass left out.
filterCRDsByExistingSkipped(existingCRDs, resultMap) == resultMap

\* The existing pass giving an instruction to every existing definition,
\* also to one that has no goal definition.
filterCRDsByExistingAdds(existingCRDs, resultMap) ==
    [n \in DOMAIN resultMap \cup NamesOf(existingCRDs) |->
        IF n \in NamesOf(existingCRDs)
        THEN Instruction(LookupExisting(existingCRDs, n), "MatchedExistingCRD", "NoDifference")
        ELSE resultMap[n]]

filterCRDsByExisting(existingCRDs, resultMap) ==
    [n \in DOMAIN resultMap |->
        IF n \in NamesOf(existingCRDs)
        THEN [resultMap[n] EXCEPT !.FilterResult = "MatchedExistingCRD"]
        ELSE resultMap[n]]

\* The map after the pattern pass; the error is WasMatchedError.
filterCRDsByPatterns(patterns, resultMap) ==
    IF patterns = <<>> THEN resultMap
    ELSE [n \in DOMAIN resultMap |->
            IF MatcherMatches(patterns, makeMatchString(resultMap[n].CRD))
            THEN [resultMap[n] EXCEPT !.FilterResult = "MatchedPattern"]
            ELSE resultMap[n]]

\* The error of matcher.WasMatched() dropped.
filterCRDsByPatternsErrorDropped(patterns, resultMap) == FALSE

filterCRDsByPatternsError(patterns, resultMap) ==
    /\ patterns # <<>>
    /\ WasMatchedError(patterns,
                       {makeMatchString(resultMap[n].CRD) : n \in DOMAIN resultMap})

\* A set as a sequence, in some order (Go map iteration order is arbitrary
\* and nothing below depends on it).
RECURSIVE SetToSeq(_)
SetToSeq(S) ==
    IF S = {} THEN <<>>
    ELSE LET x == CHOOSE y \in S : TRUE
         IN <<x>> \o SetToSeq(S \ {x})

\* The classification with the two loops in the other order: version
\* differences first, spec differences last.
ClassifyDifferencesSpecLast(existingCRDs, resultMap) ==
    LET included == {resultMap[n].CRD :
                        n \in {m \in DOMAIN resultMap :
                                 resultMap[m].FilterResult # "Excluded"}}
    IN [n \in DOMAIN resultMap |->
          IF /\ resultMap[n].CRD \in included
             /\ ~SpecEqual(LookupExisting(existingCRDs, n), resultMap[n].CRD)
          THEN [resultMap[n] EXCEPT !.DiffResult = "SpecDifferent"]
          ELSE IF /\ resultMap[n].CRD \in included
                  /\ ~VersionEqual(LookupExisting(existingCRDs, n), resultMap[n].CRD)
          THEN [resultMap[n] EXCEPT !.DiffResult = "VersionDifferent"]
          ELSE resultMap[n]]

\* manager.go:305-324: spec differences first, version differences last.
ClassifyDifferences(existingCRDs, resultMap) ==
    LET filteredGoalCRDs ==
            SetToSeq({resultMap[n].CRD :
                        n \in {m \in DOMAIN resultMap :
                                 resultMap[m].FilterResult # "Excluded"}})
        goalCRDsWithDifferentVersion ==
            FindNonMatchingCRDs(existingCRDs, filteredGoalCRDs,
                                <<Comparator("VersionEqual", FALSE)>>)
        goalCRDsWithDifferentSpec ==
            FindNonMatchingCRDs(existingCRDs, filteredGoalCRDs,
                                <<Comparator("SpecEqual", FALSE)>>)
    IN [n \in DOMAIN resultMap |->
          IF n \in DOMAIN goalCRDsWithDifferentVersion
          THEN [resultMap[n] EXCEPT !.DiffResult = "VersionDifferent"]
          ELSE IF n \in DOMAIN goalCRDsWithDifferentSpec
          THEN [resultMap[n] EXCEPT !.DiffResult = "SpecDifferent"]
          ELSE resultMap[n]]

\* The result: err, and the instructions as a function of the goal name
\* (empty when err).  patterns is the pattern spec split at ";", the empty
\* string being the empty sequence.
DetermineCRDsToInstallOrUpgrade(goalCRDs, existingCRDs, patterns) ==
    LET seeded == SeedResultMap(goalCRDs)
        byExisting == filterCRDsByExisting(existingCRDs, seeded)
        byPatterns == filterCRDsByPatterns(patterns, byExisting)
    IN IF filterCRDsByPatternsError(patterns, byExisting)
       THEN [err |-> TRUE, instructions |-> <<>>]
       ELSE [err |-> FALSE,
             instructions |-> ClassifyDifferences(existingCRDs, byPatterns)]

\* CRDInstallationInstruction.ShouldApply.
ShouldApply(item) ==
    item.FilterResult # "Excluded" /\ item.DiffResult # "NoDifference"

\* The filter keeping every instruction that is not Excluded, whatever its
\* DiffResult.
filterInstallationInstructionsNoDiff(instructions) ==
    {instructions[n] : n \in {m \in DOMAIN instructions :
                                instructions[m].FilterResult # "Excluded"}}

\* filterInstallationInstructions (manager.go:491-517): the instructions to
\* apply, as a set (the slice holds each at most once).
filterInstallationInstructions(instructions) ==
    {instructions[n] : n \in {m \in DOMAIN instructions : ShouldApply(instructions[m])}}

\* IncludedCRDs: the instructions that are not Excluded.
IncludedCRDs(instructions) ==
    {instructions[n] : n \in {m \in DOMAIN instructions :
                                instructions[m].FilterResult # "Excluded"}}

\* ------------------------------------------------------------------------
\* The fleet: replicas of the operator, each running Install once in the
\* life of its process, against one cluster and one lease.

Replicas == {"r1", "r2"}

None == "none"

NameA == <<"f", "a">>

NameB == <<"g", "b">>

NameOrder == <<NameA, NameB>>

\* What LoadOperatorCRDs returns (manager.go:186-200): the same definitions
\* in every replica of one release of the operator.
GoalCRDs == <<MkCRD(NameA, "s2", "v2", Nil), MkCRD(NameB, "s2", "v2", Nil)>>

\* The definitions a cluster may hold for a name when the fleet starts:
\* none, the goal, or the one of the previous release, both with the CA
\* bundle the certificate manager injects into stored definitions (the
\* reason for ignoreCABundle, manager.go:596-603).
StoredChoices(n) ==
    {Nil, Ptr(MkCRD(n, "s2", "v2", Ptr("ca"))), Ptr(MkCRD(n, "s1", "v1", Ptr("ca")))}

\* options.CRDPatterns split at ";": none, "f*" and "x*".
PatternChoices == {<<>>, << <<"f", "*">> >>, << <<"x", "*">> >>}

VARIABLES
    cluster,    \* name -> the stored definition (Nil when there is none)
    holder,     \* the replica whose lease record is in force, or None
    patterns,   \* options.CRDPatterns of the fleet
    useLease,   \* m.leaderElection != nil, the same for the fleet
    faults,     \* environment faults so far
    rep,        \* replica -> the state of its process
    call        \* one call of an exported function: its arguments and result

vars == <<cluster, holder, patterns, useLease, faults, rep, call>>

\* No call of an exported function on its own is under way.
NoCall == [fn |-> "none"]

\* A process before Install is called.
InitialReplica ==
    [pc |-> "start",            \* position of the engine (Install/applyCRDs)
     existing |-> <<>>,         \* options.ExistingCRDs.Items
     toApply |-> {},            \* instructionsToApply
     written |-> {},            \* names whose CreateOrUpdate succeeded
     listCalls |-> 0,           \* ListCRDs calls made by applyCRDs
     path |-> "none",           \* the return statement taken
     ret |-> "none",            \* what Install returned: "nil" or "err"
     parentCancelled |-> FALSE, \* the caller's ctx is cancelled
     engineCancelled |-> FALSE, \* cancel() of manager.go:344 was called
     elector |-> "idle",        \* Elector.Run: idle, acquiring, leading, stopped
     stopReason |-> "none",     \* why Run returned
     libCancelled |-> FALSE,    \* the lease primitive cancelled the leader ctx
     started |-> "none",        \* OnStartedLeading: spawned, signalled, stored
     leaderContext |-> "nil",   \* the guarded variable of manager.go:80
     acquired |-> FALSE,        \* LeaseAcquired is done
     released |-> FALSE,        \* LeaseReleased is done
     handler |-> "none",        \* OnStoppedLeading: read (about to exit)
     lc |-> "nil",              \* its local copy of leaderContext
     exited |-> FALSE,          \* os.Exit was called
     exitCode |-> -1,
     exitedBy |-> "none"]

Init ==
    /\ cluster \in [Range(NameOrder) -> UNION {StoredChoices(n) : n \in Range(NameOrder)}]
    /\ \A n \in Range(NameOrder) : cluster[n] \in StoredChoices(n)
    /\ holder = None
    /\ patterns \in PatternChoices
    /\ useLease \in BOOLEAN
    /\ faults = 0
    /\ rep = [r \in Replicas |-> InitialReplica]
    /\ call = NoCall

\* ListCRDs (manager.go:157-184): the stored definitions carrying the
\* operator's app label.
HasAppLabel(crd) ==
    /\ ~IsNil(crd.labels)
    /\ HasLabel(crd, ServiceOperatorAppLabel)
    /\ LabelValue(crd, ServiceOperatorAppLabel) = ServiceOperatorAppValue

ListCRDs(store) ==
    LET keep == SelectSeq(NameOrder,
                          LAMBDA n : ~IsNil(store[n]) /\ HasAppLabel(Deref(store[n])))
    IN [i \in DOMAIN keep |-> Deref(store[keep[i]])]

\* ctx of applyCRDs after manager.go:344 is done.
CtxDone(r) == rep[r].parentCancelled \/ rep[r].engineCancelled

\* The context handed to OnStartedLeading, derived from the engine's ctx.
LeaderCtxDone(r) == CtxDone(r) \/ rep[r].libCancelled

Alive(r) == ~rep[r].exited

Set(r, new) == rep' = [rep EXCEPT ![r] = new]

\* ------------------------------------------------------------------------
\* The engine: Install and applyCRDs (manager.go:331-455).
\*
\* Steps of one task that touch nothing another task reads are taken
\* together with the step that follows them.

Remaining(r) == {i \in rep[r].toApply : i.CRD.name \notin rep[r].written}

\* applyCRDs going on with an empty applicable subset.
NothingToApplyIgnored(instructionsToApply) == FALSE

\* len(instructionsToApply) == 0 of manager.go:339 and 371.
NothingToApply(instructionsToApply) == instructionsToApply = {}

\* Install going on to applyCRDs with nothing included.
NoneIncludedIgnored(included) == FALSE

\* len(included) == 0 of manager.go:443.
NoneIncluded(included) == included = {}

\* Install up to the first suspension point of applyCRDs: load, plan, the
\* included check (manager.go:432-445), then applyCRDs' first filter and,
\* with a lease, the start of the election task (manager.go:337-350).
\* options.ExistingCRDs was filled by the caller from the cluster.
Install(r) ==
    /\ Alive(r)
    /\ rep[r].pc = "start"
    /\ LET existing == ListCRDs(cluster)
           plan == DetermineCRDsToInstallOrUpgrade(GoalCRDs, existing, patterns)
           instructionsToApply == filterInstallationInstructions(plan.instructions)
       IN IF plan.err
          THEN Set(r, [rep[r] EXCEPT !.pc = "returned", !.existing = existing,
                                     !.path = "planErr", !.ret = "err"])
          ELSE IF NoneIncluded(IncludedCRDs(plan.instructions))
          THEN Set(r, [rep[r] EXCEPT !.pc = "returned", !.existing = existing,
                                     !.path = "noneIncluded", !.ret = "err"])
          ELSE IF NothingToApply(instructionsToApply)
          THEN Set(r, [rep[r] EXCEPT !.pc = "returned", !.existing = existing,
                                     !.path = "earlyEmpty", !.ret = "nil"])
          ELSE IF useLease
          THEN Set(r, [rep[r] EXCEPT !.pc = "waitAcquired", !.existing = existing,
                                     !.toApply = instructionsToApply,
                                     !.elector = "acquiring"])
          ELSE Set(r, [rep[r] EXCEPT !.pc = "apply", !.existing = existing,
                                     !.toApply = instructionsToApply])
    /\ UNCHANGED <<call, cluster, holder, patterns, useLease, faults>>

\* The engine going on without waiting for the lease.
AcquiredObservedNoWait(r) == rep[r].elector # "idle"

\* What lets the engine past m.leaderElection.LeaseAcquired.Wait()
\* (manager.go:350).
AcquiredObserved(r) == rep[r].acquired

\* The recheck planning with the list Install was given, without listing
\* again.
RecheckExistingStale(r) == rep[r].existing

\* The existing definitions the recheck plans with (manager.go:362, 366).
RecheckExisting(r) == ListCRDs(cluster)

\* LeaseAcquired.Wait() returns, the deferred cancel-and-wait of
\* manager.go:354-357 is registered, and the double-checked locking of
\* manager.go:362-374 lists, plans and filters again.  A return runs the
\* deferred cancel() at once; the deferred wait follows.
RecheckOk(r) ==
    /\ Alive(r)
    /\ rep[r].pc = "waitAcquired"
    /\ AcquiredObserved(r)
    /\ ~CtxDone(r)
    /\ LET existing == RecheckExisting(r)
           plan == DetermineCRDsToInstallOrUpgrade(GoalCRDs, existing, patterns)
           instructionsToApply == filterInstallationInstructions(plan.instructions)
       IN IF plan.err
          THEN Set(r, [rep[r] EXCEPT !.pc = "deferWait", !.existing = existing,
                                     !.listCalls = @ + 1, !.toApply = {},
                                     !.path = "replanErr", !.engineCancelled = TRUE])
          ELSE IF NothingToApply(instructionsToApply)
          THEN Set(r, [rep[r] EXCEPT !.pc = "deferWait", !.existing = existing,
                                     !.listCalls = @ + 1, !.toApply = {},
                                     !.path = "recheckEmpty", !.engineCancelled = TRUE])
          ELSE Set(r, [rep[r] EXCEPT !.pc = "apply", !.existing = existing,
                                     !.listCalls = @ + 1,
                                     !.toApply = instructionsToApply])
    /\ UNCHANGED <<call, cluster, holder, patterns, useLease, faults>>

\* The same, with m.kubeClient.List failing (manager.go:174-177, 362-365):
\* the context is done, or the cluster refuses.  ListCRDs has cleared the
\* list.
RecheckListFail(r) ==
    /\ Alive(r)
    /\ rep[r].pc = "waitAcquired"
    /\ AcquiredObserved(r)
    /\ CtxDone(r) \/ faults < MaxFaults
    /\ faults' = IF CtxDone(r) THEN faults ELSE faults + 1
    /\ Set(r, [rep[r] EXCEPT !.pc = "deferWait", !.existing = <<>>,
                             !.listCalls = @ + 1,
                             !.path = "listErr", !.engineCancelled = TRUE])
    /\ UNCHANGED <<call, cluster, holder, patterns, useLease>>

\* The engine's position after a successful CreateOrUpdate that leaves
\* `left` instructions: the next round, or, the loop being over
\* (manager.go:408-413), cancel() and the wait for the release with a
\* lease, os.Exit without.
AfterWrite(rec, left) ==
    IF left # {} THEN rec
    ELSE IF useLease THEN [rec EXCEPT !.pc = "waitOk", !.engineCancelled = TRUE]
    ELSE [rec EXCEPT !.pc = "exitOk"]

\* One round of the loop of manager.go:380-406 whose CreateOrUpdate
\* succeeds: the stored object becomes the instruction's definition.
ApplyWriteOk(r) ==
    /\ Alive(r)
    /\ rep[r].pc = "apply"
    /\ ~CtxDone(r)
    /\ \E i \in Remaining(r) :
        /\ cluster' = [cluster EXCEPT ![i.CRD.name] = Ptr(i.CRD)]
        /\ Set(r, AfterWrite([rep[r] EXCEPT !.written = @ \cup {i.CRD.name}],
                             Remaining(r) \ {i}))
    /\ UNCHANGED <<call, holder, patterns, useLease, faults>>

\* One round whose CreateOrUpdate fails (manager.go:401-403): the error is
\* returned; with a lease the deferred cancel-and-wait runs first.
ApplyWriteFail(r) ==
    /\ Alive(r)
    /\ rep[r].pc = "apply"
    /\ CtxDone(r) \/ faults < MaxFaults
    /\ faults' = IF CtxDone(r) THEN faults ELSE faults + 1
    /\ IF useLease
       THEN Set(r, [rep[r] EXCEPT !.pc = "deferWait", !.path = "writeErr",
                                  !.engineCancelled = TRUE])
       ELSE Set(r, [rep[r] EXCEPT !.pc = "returned", !.path = "writeErr",
                                  !.ret = "err"])
    /\ UNCHANGED <<call, cluster, holder, patterns, useLease>>

\* The engine going on without waiting for the release.
ReleasedObservedNoWait(r) == TRUE

\* What lets the engine past m.leaderElection.LeaseReleased.Wait()
\* (manager.go:356, 412).
ReleasedObserved(r) == rep[r].released

\* os.Exit(0) of manager.go:418, with a lease once LeaseReleased.Wait()
\* of manager.go:412 has returned.
EngineExit(r) ==
    /\ Alive(r)
    /\ \/ rep[r].pc = "exitOk"
       \/ rep[r].pc = "waitOk" /\ ReleasedObserved(r)
    /\ Set(r, [rep[r] EXCEPT !.pc = "exitOk", !.exited = TRUE, !.exitCode = 0,
                             !.exitedBy = "engine"])
    /\ UNCHANGED <<call, cluster, holder, patterns, useLease, faults>>

\* The deferred LeaseReleased.Wait() of manager.go:356 returns and
\* applyCRDs returns to Install, which returns to its caller.
DeferWait(r) ==
    /\ Alive(r)
    /\ rep[r].pc = "deferWait"
    /\ ReleasedObserved(r)
    /\ Set(r, [rep[r] EXCEPT !.pc = "returned",
                             !.ret = IF rep[r].path = "recheckEmpty" THEN "nil" ELSE "err"])
    /\ UNCHANGED <<call, cluster, holder, patterns, useLease, faults>>

\* ------------------------------------------------------------------------
\* The election task: Elector.Run(ctx), started at manager.go:349, with the
\* callbacks NewLeaderElector registers (manager.go:88-121).  The lease
\* primitive is outside this repository; what is modelled of it is its
\* contract: Run tries to acquire the lease until ctx is done; once it
\* holds the lease it starts OnStartedLeading as a task of its own, with a
\* context derived from ctx, and renews until ctx is done or a renewal
\* fails; when Run returns, for whatever reason, it calls OnStoppedLeading.

\* The lease is free and this replica takes it: OnStartedLeading is spawned.
ElectorAcquire(r) ==
    /\ Alive(r)
    /\ rep[r].elector = "acquiring"
    /\ ~CtxDone(r)
    /\ holder = None
    /\ holder' = r
    /\ Set(r, [rep[r] EXCEPT !.elector = "leading", !.started = "spawned"])
    /\ UNCHANGED <<call, cluster, patterns, useLease, faults>>

\* OnStoppedLeading up to its read of the guarded variable
\* (manager.go:98-103): leaseReleasedWait.Done(), then lc := leaderContext
\* under the lock.
StoppedEntry(rec) ==
    [rec EXCEPT !.released = TRUE, !.lc = rec.leaderContext, !.handler = "read"]

\* ctx is done before the lease was acquired: Run gives up and calls
\* OnStoppedLeading.
ElectorAbort(r) ==
    /\ Alive(r)
    /\ rep[r].elector = "acquiring"
    /\ CtxDone(r)
    /\ Set(r, StoppedEntry([rep[r] EXCEPT !.elector = "stopped",
                                          !.stopReason = "neverLed"]))
    /\ UNCHANGED <<call, cluster, holder, patterns, useLease, faults>>

\* ctx is done while leading (cooperative release): renewing stops and the
\* lease is given up (ReleaseOnCancel) or left to run out; either way other
\* replicas may take it from now on.  Run calls OnStoppedLeading.
ElectorRelease(r) ==
    /\ Alive(r)
    /\ rep[r].elector = "leading"
    /\ CtxDone(r)
    /\ holder' = None
    /\ Set(r, StoppedEntry([rep[r] EXCEPT !.elector = "stopped",
                                          !.stopReason = "cancelled"]))
    /\ UNCHANGED <<call, cluster, patterns, useLease, faults>>

\* A renewal fails while ctx is live (involuntary loss) and Run calls
\* OnStoppedLeading.  Whether the primitive has cancelled the context it
\* gave OnStartedLeading by then is not fixed by this repository: both
\* happen.  The lease record stays in force until it runs out, see
\* LeaseExpire.
ElectorLose(r) ==
    /\ Alive(r)
    /\ rep[r].elector = "leading"
    /\ ~CtxDone(r)
    /\ faults < MaxFaults
    /\ faults' = faults + 1
    /\ \E c \in BOOLEAN :
        Set(r, StoppedEntry([rep[r] EXCEPT !.elector = "stopped",
                                           !.stopReason = "lost",
                                           !.libCancelled = c]))
    /\ UNCHANGED <<call, cluster, holder, patterns, useLease>>

\* The record of a replica that stopped renewing runs out after the lease
\* duration, which is longer than the renew deadline by more than the
\* stopped-leading handler needs to end the process.
LeaseExpire(r) ==
    /\ holder = r
    /\ rep[r].exited
    /\ holder' = None
    /\ UNCHANGED <<call, cluster, patterns, useLease, faults, rep>>

\* OnStartedLeading, manager.go:90-91: leaseAcquiredWait.Done().
StartedSignal(r) ==
    /\ Alive(r)
    /\ rep[r].started = "spawned"
    /\ Set(r, [rep[r] EXCEPT !.started = "signalled", !.acquired = TRUE])
    /\ UNCHANGED <<call, cluster, holder, patterns, useLease, faults>>

\* OnStartedLeading, manager.go:93-95: leaderContext = ctx under the lock.
StartedStore(r) ==
    /\ Alive(r)
    /\ rep[r].started = "signalled"
    /\ Set(r, [rep[r] EXCEPT !.started = "stored", !.leaderContext = "ctx"])
    /\ UNCHANGED <<call, cluster, holder, patterns, useLease, faults>>

\* The handler taking any stored context for a cancelled one.
StoppedExitCodeNoSelect(lc, done) == IF lc # "nil" THEN 0 ELSE 1

\* manager.go:105-112: 0 iff lc is set and its Done channel is closed.
StoppedExitCode(lc, done) == IF lc # "nil" /\ done THEN 0 ELSE 1

\* OnStoppedLeading, manager.go:105-119: os.Exit(exitCode).
StoppedExit(r) ==
    /\ Alive(r)
    /\ rep[r].handler = "read"
    /\ Set(r, [rep[r] EXCEPT !.exited = TRUE,
                             !.exitCode = StoppedExitCode(rep[r].lc, LeaderCtxDone(r)),
                             !.exitedBy = "handler"])
    /\ UNCHANGED <<call, cluster, holder, patterns, useLease, faults>>

\* ------------------------------------------------------------------------
\* The environment.

\* The caller of Install cancels the context it passed, while applyCRDs is
\* between its first filter and its own cancel().
ParentCancel(r) ==
    /\ Alive(r)
    /\ rep[r].pc \in {"waitAcquired", "apply"}
    /\ ~rep[r].parentCancelled
    /\ faults < MaxFaults
    /\ faults' = faults + 1
    /\ Set(r, [rep[r] EXCEPT !.parentCancelled = TRUE])
    /\ UNCHANGED <<call, cluster, holder, patterns, useLease>>

Next ==
    \E r \in Replicas :
        \/ Install(r)
        \/ RecheckOk(r)
        \/ RecheckListFail(r)
        \/ ApplyWriteOk(r)
        \/ ApplyWriteFail(r)
        \/ EngineExit(r)
        \/ DeferWait(r)
        \/ ElectorAcquire(r)
        \/ ElectorAbort(r)
        \/ ElectorRelease(r)
        \/ ElectorLose(r)
        \/ LeaseExpire(r)
        \/ StartedSignal(r)
        \/ StartedStore(r)
        \/ StoppedExit(r)
        \/ ParentCancel(r)

Spec == Init /\ [][Next]_vars

\* ------------------------------------------------------------------------
\* Single calls of the exported functions: the planner and the comparators
\* called on their own, as the package's callers and tests call them, on
\* arguments drawn from the sets below.

\* Longest goal list of a call.
MaxGoalLen == 2

NameC == <<"h", "c">>

\* A definition with the zero-value spec and no labels.
BareCRD(name) == [ZeroCRD EXCEPT !.name = name]

\* The definitions a goal list is made of.  Two files of the directory
\* loadCRDs reads (manager.go:457-489) may hold definitions of one name.
GoalDefs ==
    {MkCRD(NameA, "s2", "v2", Nil), MkCRD(NameA, "s3", "v2", Nil), BareCRD(NameA),
     MkCRD(NameB, "s2", "v2", Nil), BareCRD(NameB)}

GoalLists == UNION {[1..k -> GoalDefs] : k \in 0..MaxGoalLen}

\* What the cluster may hold under a name: nothing, or one definition.
ExistingChoices(n) ==
    IF n = NameA
    THEN {Nil, Ptr(MkCRD(n, "s2", "v2", Ptr("ca"))), Ptr(MkCRD(n, "s1", "v1", Ptr("ca"))),
          Ptr(MkCRD(n, "s1", "v2", Ptr("ca"))), Ptr(MkCRD(n, "s2", "v1", Ptr("ca")))}
    ELSE {Nil, Ptr(MkCRD(n, "s2", "v2", Ptr("ca")))}

\* The lists a list call may return: at most one definition per name
\* (names are unique in a cluster), NameC being no goal name.
ExistingLists ==
    {a \o b \o c : a \in ExistingChoices(NameA),
                   b \in ExistingChoices(NameB),
                   c \in ExistingChoices(NameC)}

\* Pattern specs split at ";": "", "f*", "g*", "x*", "f*;x*", "f*;g*".
PatternSpecs ==
    {<<>>, << <<"f", "*">> >>, << <<"g", "*">> >>, << <<"x", "*">> >>,
     << <<"f", "*">>, <<"x", "*">> >>, << <<"f", "*">>, <<"g", "*">> >>}

\* ObjectMeta.Labels of an argument of VersionEqual: a nil map, an empty
\* map, a map without the version label, and maps with it.
LabelMaps ==
    {Nil, Ptr(<<>>), Ptr(ServiceOperatorAppLabel :> ServiceOperatorAppValue),
     Ptr(ServiceOperatorVersionLabel :> ""),
     Ptr(ServiceOperatorVersionLabel :> "v1"),
     Ptr(ServiceOperatorVersionLabel :> "v2")}

LabelledCRDs == {[BareCRD(NameA) EXCEPT !.labels = l] : l \in LabelMaps}

\* Most comparators passed in one call.
MaxComparators == 2

ComparatorNames == {"VersionEqual", "SpecEqual", "SpecEqualIgnoreConversionWebhook"}

\* The comparators argument of FindMatchingCRDs / FindNonMatchingCRDs.
ComparatorLists ==
    UNION {[1..k -> {Comparator(c, FALSE) : c \in ComparatorNames}] :
              k \in 0..MaxComparators}

\* The definitions SpecEqual and SpecEqualIgnoreConversionWebhook are
\* called on: with a conversion webhook, with and without a CA bundle, and
\* without a conversion.
SpecDefs ==
    {MkCRD(NameA, "s2", "v2", Nil), MkCRD(NameA, "s2", "v2", Ptr("ca")),
     MkCRD(NameA, "s1", "v1", Ptr("ca")), BareCRD(NameA)}

\* spec.conversion of a definition passed to fixCRDNamespace: every
\* prefix of the pointer chain down to the service, whose namespace is "o".
FixConversions ==
    {Nil,
     Ptr([webhook |-> Nil]),
     Ptr([webhook |-> Ptr([clientConfig |-> Nil])]),
     Ptr([webhook |-> Ptr([clientConfig |-> Ptr([caBundle |-> Nil, service |-> Nil])])]),
     Ptr([webhook |-> Ptr([clientConfig |->
            Ptr([caBundle |-> Nil, service |-> Ptr([namespace |-> <<"o">>])])])])}

\* Values of the certificate-injection annotation: "", "no", "o/c", "/",
\* "o/", "a/b/c", "//".
InjectValues ==
    {<<>>, <<"n", "o">>, <<"o", "/", "c">>, <<"/">>, <<"o", "/">>,
     <<"a", "/", "b", "/", "c">>, <<"/", "/">>}

\* Annotations of a definition passed to fixCRDNamespace: a nil map, an
\* empty map, a map without the annotation, and maps with it.
FixAnnotations ==
    {Nil, Ptr(<<>>), Ptr("other" :> <<"x", "/", "y">>)}
    \cup {Ptr(certMgrInjectCAFromAnnotation :> v) : v \in InjectValues}
    \cup {Ptr((certMgrInjectCAFromAnnotation :> <<"o", "/", "c">>)
               @@ ("other" :> <<"x", "/", "y">>))}

FixDefs ==
    {[name |-> NameA, spec |-> [schema |-> "s2", conversion |-> c],
      labels |-> Labels("v2"), annotations |-> a] :
        c \in FixConversions, a \in FixAnnotations}

\* Target namespaces: "ns" and "o".
TargetNamespaces == {<<"n", "s">>, <<"o">>}

\* A call about to be made.
PendingCall(fn, goal, existing, pats, comparators, namespace, a, b) ==
    [fn |-> fn, goal |-> goal, existing |-> existing, patterns |-> pats,
     comparators |-> comparators, namespace |-> namespace, a |-> a, b |-> b,
     done |-> FALSE, out |-> FALSE]

PlanCalls ==
    {PendingCall("DetermineCRDsToInstallOrUpgrade", g, e, p, <<>>, <<>>, ZeroCRD, ZeroCRD) :
        g \in GoalLists, e \in ExistingLists, p \in PatternSpecs}

VersionEqualCalls ==
    {PendingCall("VersionEqual", <<>>, <<>>, <<>>, <<>>, <<>>, a, b) :
        a \in LabelledCRDs, b \in LabelledCRDs}

\* The goal and existing lists handed to FindMatchingCRDs and
\* FindNonMatchingCRDs: a goal definition differs from the stored one of its
\* name in spec, in version, in both or in neither, or nothing is stored
\* under its name, and a name may be stored that no goal definition has.
FindGoalDefs == {MkCRD(NameA, "s2", "v2", Nil), MkCRD(NameB, "s2", "v2", Nil)}

FindGoalLists == UNION {[1..k -> FindGoalDefs] : k \in 0..MaxGoalLen}

FindExistingLists ==
    {a \o b : a \in ExistingChoices(NameA), b \in ExistingChoices(NameB)}

FindCalls ==
    {PendingCall(fn, g, e, <<>>, cs, <<>>, ZeroCRD, ZeroCRD) :
        fn \in {"FindMatchingCRDs", "FindNonMatchingCRDs"},
        g \in FindGoalLists, e \in FindExistingLists, cs \in ComparatorLists}

FixCalls ==
    {PendingCall("fixCRDNamespace", <<>>, <<>>, <<>>, <<>>, ns, a, ZeroCRD) :
        a \in FixDefs, ns \in TargetNamespaces}

SpecEqualCalls ==
    {PendingCall(fn, <<>>, <<>>, <<>>, <<>>, <<>>, a, b) :
        fn \in {"SpecEqual", "SpecEqualIgnoreConversionWebhook"},
        a \in SpecDefs, b \in SpecDefs}

\* No replica runs; one call is about to be made.
CallInit ==
    /\ cluster = [n \in Range(NameOrder) |-> Nil]
    /\ holder = None
    /\ patterns = <<>>
    /\ useLease = FALSE
    /\ faults = 0
    /\ rep = [r \in Replicas |-> InitialReplica]
    /\ call \in PlanCalls \cup VersionEqualCalls \cup FindCalls \cup SpecEqualCalls
                \cup FixCalls

FleetIdle == UNCHANGED <<cluster, holder, patterns, useLease, faults, rep>>

\* m.DetermineCRDsToInstallOrUpgrade(goal, existing, patterns) returns.
CallPlan ==
    /\ call.fn = "DetermineCRDsToInstallOrUpgrade"
    /\ ~call.done
    /\ call' = [call EXCEPT !.done = TRUE,
                            !.out = DetermineCRDsToInstallOrUpgrade(
                                        call.goal, call.existing, call.patterns)]
    /\ FleetIdle

\* VersionEqual(a, b) returns.
CallVersionEqual ==
    /\ call.fn = "VersionEqual"
    /\ ~call.done
    /\ call' = [call EXCEPT !.done = TRUE, !.out = VersionEqual(call.a, call.b)]
    /\ FleetIdle

\* existingCRD = *existingCRD.DeepCopy(); goalCRD = *goalCRD.DeepCopy()
\* (manager.go:226-227): the comparators of FindMatchingCRDs are passed
\* definitions that share no pointer with the caller's.
ComparesDeepCopies == TRUE

\* The caller's goal list after FindMatchingCRDs has returned.
GoalAfterFind(existing, goal, comparators) ==
    [i \in DOMAIN goal |->
        IF ComparesDeepCopies THEN goal[i]
        ELSE RunComparators(comparators,
                            LookupExisting(existing, goal[i].name), goal[i]).b]

\* The caller's existing list after FindMatchingCRDs has returned.
ExistingAfterFind(existing, goal, comparators) ==
    [j \in DOMAIN existing |->
        IF ComparesDeepCopies \/ existing[j].name \notin NamesOf(goal)
        THEN existing[j]
        ELSE RunComparators(comparators, existing[j],
                            LastOfGoal(goal, existing[j].name)).a]

\* m.FindMatchingCRDs(existing, goal, comparators...) returns.
CallFindMatching ==
    /\ call.fn = "FindMatchingCRDs"
    /\ ~call.done
    /\ call' = [call EXCEPT
            !.done = TRUE,
            !.out = [result |-> FindMatchingCRDs(call.existing, call.goal,
                                                 call.comparators),
                     goal |-> GoalAfterFind(call.existing, call.goal,
                                            call.comparators),
                     existing |-> ExistingAfterFind(call.existing, call.goal,
                                                    call.comparators)]]
    /\ FleetIdle

\* m.FindNonMatchingCRDs(existing, goal, comparators...) returns.
CallFindNonMatching ==
    /\ call.fn = "FindNonMatchingCRDs"
    /\ ~call.done
    /\ call' = [call EXCEPT
            !.done = TRUE,
            !.out = [result |-> FindNonMatchingCRDs(call.existing, call.goal,
                                                    call.comparators),
                     goal |-> GoalAfterFind(call.existing, call.goal,
                                            InvertComparators(call.comparators)),
                     existing |-> ExistingAfterFind(call.existing, call.goal,
                                    InvertComparators(call.comparators))]]
    /\ FleetIdle

\* SpecEqual(a, b) or SpecEqualIgnoreConversionWebhook(a, b), called on the
\* caller's definitions, returns: the result, and what the call left of the
\* two definitions the caller holds.
CallSpecEqual ==
    /\ call.fn \in {"SpecEqual", "SpecEqualIgnoreConversionWebhook"}
    /\ ~call.done
    /\ call' = [call EXCEPT
            !.done = TRUE,
            !.out = [result |-> RunNamedComparator(call.fn, call.a, call.b),
                     a |-> ComparatorLeaves(call.fn, call.a),
                     b |-> ComparatorLeaves(call.fn, call.b)]]
    /\ FleetIdle

\* fixCRDNamespace(crd, namespace) returns: the definition returned, and
\* what the call left of the definition the caller passed.
CallFixNamespace ==
    /\ call.fn = "fixCRDNamespace"
    /\ ~call.done
    /\ call' = [call EXCEPT
            !.done = TRUE,
            !.out = [result |-> fixCRDNamespace(call.a, call.namespace),
                     a |-> InputAfterFix(call.a, call.namespace)]]
    /\ FleetIdle

CallNext ==
    \/ CallFixNamespace
    \/ CallPlan
    \/ CallVersionEqual
    \/ CallFindMatching
    \/ CallFindNonMatching
    \/ CallSpecEqual

CallSpec == CallInit /\ [][CallNext]_vars

\* ------------------------------------------------------------------------
\* Properties.

InstructionNames(instrs) == {i.CRD.name : i \in instrs}

\* The engine is inside the loop of manager.go:380-406 with a live context:
\* its next create-or-update call is sent to the cluster (a call made on a
\* context that is done fails in the client, see ApplyWriteFail).
InWriteLoop(r) == Alive(r) /\ rep[r].pc = "apply" /\ ~CtxDone(r)

\* The engine has written every instruction of its (non-empty) applicable
\* subset and left the loop.
AllWritten(r) == rep[r].pc \in {"waitOk", "exitOk"}

NothingLeftToApply ==
    LET plan == DetermineCRDsToInstallOrUpgrade(GoalCRDs, ListCRDs(cluster), patterns)
    IN ~plan.err /\ filterInstallationInstructions(plan.instructions) = {}

WritersOf(n) == {r \in Replicas : n \in rep[r].written}

\* Replica r takes the recheck step of applyCRDs with a list call that
\* succeeds.
RecheckStep(r) ==
    /\ rep[r].pc = "waitAcquired"
    /\ rep'[r].listCalls = rep[r].listCalls + 1
    /\ rep'[r].path # "listErr"

\* C2: with a lease configured and replicas sharing the goal definitions, no
\* definition is written by more than one replica; once a replica has
\* written its whole applicable subset nothing is left to apply, so every
\* applicable definition was written exactly once across the fleet; and a
\* replica whose recheck runs after another replica has finished applying
\* finds an empty applicable subset and has written nothing.
C2_ExactlyOncePerFleet ==
    /\ [](useLease =>
            /\ \A n \in Range(NameOrder) : Cardinality(WritersOf(n)) <= 1
            /\ \A q \in Replicas : AllWritten(q) => NothingLeftToApply
            /\ \A r \in Replicas : rep[r].path = "recheckEmpty" => rep[r].written = {})
    /\ [][useLease =>
            \A r \in Replicas :
                (RecheckStep(r) /\ \E q \in Replicas \ {r} : AllWritten(q))
                    => (rep'[r].path = "recheckEmpty" /\ rep'[r].toApply = {})]_vars

\* One replica has finished applying; another, which entered applyCRDs
\* with a non-empty applicable subset, acquired the lease, found nothing
\* to apply at its recheck and wrote nothing.
C2_Witness ==
    /\ useLease
    /\ \E q \in Replicas, r \in Replicas :
        /\ q # r
        /\ AllWritten(q)
        /\ rep[q].written # {}
        /\ rep[r].path = "recheckEmpty"
        /\ rep[r].listCalls = 1
        /\ rep[r].written = {}

\* C3: with a lease configured, when the recheck after 'acquired' yields an
\* empty applicable subset, Apply writes nothing, cancels the leadership
\* context, waits for 'released' and returns success: no environment fault
\* having occurred, the process is not ended before Apply has returned nil.
C3_RecheckEmptyReturnsSuccess ==
    \A r \in Replicas :
        (rep[r].path = "recheckEmpty" /\ faults = 0) =>
            /\ rep[r].written = {}
            /\ rep[r].engineCancelled
            /\ rep[r].pc = "returned" => (rep[r].released /\ rep[r].ret = "nil")
            /\ rep[r].exited => rep[r].pc = "returned"

\* C4: an Apply invocation that writes no definition does not terminate the
\* process: no environment fault having occurred, a replica that has
\* written nothing has not exited.
C4_NoWriteNoExit ==
    \A r \in Replicas :
        (rep[r].written = {} /\ faults = 0) => ~rep[r].exited

\* C5: once Apply has written every instruction of a non-empty applicable
\* subset, a process that terminates does so with status 0: no environment
\* fault having occurred, no exit with another status follows.
C5_AllWrittenExitsZero ==
    \A r \in Replicas :
        (AllWritten(r) /\ faults = 0 /\ rep[r].exited) => rep[r].exitCode = 0

\* C6 as claimed: with a lease and a successful apply, every process exit
\* (here: with status 0, no environment fault having occurred) is preceded
\* by the 'released' signal and by the engine's wait on it completing.
C6_ExitAfterEngineWait ==
    useLease =>
        \A r \in Replicas :
            (AllWritten(r) /\ faults = 0 /\ rep[r].exited /\ rep[r].exitCode = 0) =>
                (rep[r].released /\ rep[r].pc = "exitOk")

\* C6 as amended: with a lease configured, the engine cancels the
\* leadership context on the success path only after the last write
\* succeeded; every process exit is preceded by the 'released' signal; and
\* the engine's own exit is preceded by its wait on that signal completing.
C6_ExitAfterReleased ==
    useLease =>
        \A r \in Replicas :
            /\ (rep[r].engineCancelled /\ rep[r].path = "none") =>
                  (AllWritten(r) /\ rep[r].toApply # {}
                      /\ InstructionNames(rep[r].toApply) \subseteq rep[r].written)
            /\ rep[r].exited => rep[r].released
            /\ rep[r].exitedBy = "engine" =>
                  (rep[r].pc = "exitOk" /\ rep[r].engineCancelled /\ rep[r].released)

\* The engine itself ended the process after a successful apply under a
\* lease.
C6_Witness ==
    /\ useLease
    /\ \E r \in Replicas :
        /\ rep[r].exitedBy = "engine"
        /\ rep[r].written # {}
        /\ rep[r].stopReason = "cancelled"

\* C7: when leadership ends because the engine cancelled the leadership
\* context (no environment fault having occurred), the stopped-leading
\* handler ends the process with status 0.
C7_CooperativeReleaseExitsZero ==
    \A r \in Replicas :
        (/\ rep[r].exitedBy = "handler"
         /\ rep[r].stopReason = "cancelled"
         /\ rep[r].engineCancelled
         /\ faults = 0) => rep[r].exitCode = 0

\* C8: when the stopped-leading handler runs after an involuntary loss and
\* the leadership context is still live when it looks at it, it ends the
\* process with a non-zero status.
C8_LiveContextExitsNonZero ==
    \A r \in Replicas :
        (/\ rep[r].exitedBy = "handler"
         /\ rep[r].stopReason = "lost"
         /\ ~LeaderCtxDone(r)) => rep[r].exitCode = 1

\* The lease was lost while the stored leadership context was live, and the
\* handler ended the process with status 1.
C8_Witness ==
    \E r \in Replicas :
        /\ rep[r].exitedBy = "handler"
        /\ rep[r].stopReason = "lost"
        /\ rep[r].lc = "ctx"
        /\ ~LeaderCtxDone(r)
        /\ rep[r].exitCode = 1

\* C9: if the context passed to Apply is cancelled while the engine waits
\* for 'acquired' (the election task gives up before it ever led), Apply
\* has no side effect: no list call, no write, no process termination.
C9_CancelBeforeAcquireNoSideEffect ==
    \A r \in Replicas :
        rep[r].stopReason = "neverLed" =>
            /\ rep[r].listCalls = 0
            /\ rep[r].written = {}
            /\ ~rep[r].exited

\* The applicable subset of the decision set Install passed to applyCRDs,
\* while options.ExistingCRDs is still the list Install planned with.
FirstApplicable(r) ==
    filterInstallationInstructions(
        DetermineCRDsToInstallOrUpgrade(GoalCRDs, rep[r].existing, patterns).instructions)

\* C10: applyCRDs returns nil at once exactly when the applicable subset of
\* the decision set it was passed is empty, and then the election task was
\* not started, no signal was waited on or fired, no list or write call
\* was made, and the process was not ended.
C10_EmptySubsetReturnsAtOnce ==
    \A r \in Replicas :
        /\ (/\ rep[r].pc # "start"
            /\ rep[r].listCalls = 0
            /\ rep[r].path \notin {"planErr", "noneIncluded"}) =>
                (FirstApplicable(r) = {} <=> rep[r].path = "earlyEmpty")
        /\ rep[r].path = "earlyEmpty" =>
                /\ rep[r].pc = "returned"
                /\ rep[r].ret = "nil"
                /\ rep[r].elector = "idle"
                /\ rep[r].started = "none"
                /\ ~rep[r].acquired
                /\ ~rep[r].released
                /\ ~rep[r].engineCancelled
                /\ rep[r].listCalls = 0
                /\ rep[r].written = {}
                /\ ~rep[r].exited

\* A replica returned at once while the other replica, which planned
\* earlier, is applying.
C10_Witness ==
    \E r \in Replicas, q \in Replicas :
        /\ rep[r].path = "earlyEmpty"
        /\ rep[q].written # {}

\* C11: when a create-or-update call fails, the engine has left the write
\* loop for good (no further write call), the definitions written before
\* the failure are still stored, an instruction is left unwritten, Apply
\* does not return nil, and the process is not ended before Apply has
\* returned the error to its caller.
C11_WriteFailureReturnsError ==
    \A r \in Replicas :
        rep[r].path = "writeErr" =>
            /\ rep[r].pc \in {"deferWait", "returned"}
            /\ Remaining(r) # {}
            /\ rep[r].written \subseteq InstructionNames(rep[r].toApply)
            /\ \A n \in rep[r].written : ~IsNil(cluster[n])
            /\ rep[r].ret # "nil"
            /\ rep[r].pc = "returned" => rep[r].ret = "err"
            /\ rep[r].exited => rep[r].pc = "returned"

\* The decision set in force for replica r: the plan made from the list
\* options.ExistingCRDs holds (the re-listed one after the recheck).
PlanInForce(r) ==
    DetermineCRDsToInstallOrUpgrade(GoalCRDs, rep[r].existing, patterns).instructions

\* The names the decision set in force marks neither Excluded nor
\* NoDifference.
ApplicableNames(r) ==
    LET plan == PlanInForce(r)
    IN {n \in DOMAIN plan :
            /\ plan[n].FilterResult # "Excluded"
            /\ plan[n].DiffResult # "NoDifference"}

\* C12: a definition the engine has written is one the decision set in
\* force marks neither Excluded nor NoDifference, and once every write has
\* succeeded the written definitions are exactly those.
C12_WritesExactlyApplicable ==
    \A r \in Replicas :
        (rep[r].written # {} \/ AllWritten(r)) =>
            LET applicable == ApplicableNames(r)
            IN /\ rep[r].written \subseteq applicable
               /\ AllWritten(r) => rep[r].written = applicable

\* A replica has written all it had to write while its decision set holds
\* an instruction that was not to be applied.
C12_Witness ==
    \E r \in Replicas :
        /\ AllWritten(r)
        /\ rep[r].written # {}
        /\ rep[r].written # DOMAIN PlanInForce(r)

\* The goal names the plan Install made marks other than Excluded.
FirstIncludedNames(r) ==
    LET plan == PlanInForce(r)
    IN {n \in DOMAIN plan : plan[n].FilterResult # "Excluded"}

\* C18: Install returns an error, without starting the election task and
\* without a list or write call of the engine, exactly when its plan
\* succeeds and holds no instruction other than Excluded ones; the engine
\* is never entered with such a decision set.
C18_NoneIncludedIsAnError ==
    \A r \in Replicas :
        /\ (/\ rep[r].pc # "start"
            /\ rep[r].listCalls = 0
            /\ rep[r].path # "planErr") =>
                (FirstIncludedNames(r) = {} <=> rep[r].path = "noneIncluded")
        /\ rep[r].path = "noneIncluded" =>
                /\ rep[r].pc = "returned"
                /\ rep[r].ret = "err"
                /\ rep[r].elector = "idle"
                /\ rep[r].started = "none"
                /\ ~rep[r].acquired
                /\ rep[r].toApply = {}
                /\ rep[r].listCalls = 0
                /\ rep[r].written = {}
                /\ ~rep[r].exited

\* With a lease configured, Install returned the error because nothing was
\* included.
C18_Witness ==
    /\ useLease
    /\ \E r \in Replicas :
        /\ rep[r].path = "noneIncluded"
        /\ rep[r].ret = "err"
        /\ FirstIncludedNames(r) = {}

\* A call of the planner has returned a decision set.
Planned ==
    /\ call.fn = "DetermineCRDsToInstallOrUpgrade"
    /\ call.done
    /\ ~call.out.err

\* The last entry of a name in a list: the one a map keyed by name keeps.
LastOfName(crds, n) ==
    crds[CHOOSE i \in DOMAIN crds :
            /\ crds[i].name = n
            /\ \A j \in DOMAIN crds : crds[j].name = n => j <= i]

\* C13 as claimed: a decision set has as many instructions as the goal
\* list has entries, every goal name is the name of exactly one
\* instruction, and no instruction is for a name only in existing.
C13_OneInstructionPerGoalEntry ==
    Planned =>
        /\ Cardinality(DOMAIN call.out.instructions) = Len(call.goal)
        /\ DOMAIN call.out.instructions = NamesOf(call.goal)
        /\ \A n \in DOMAIN call.out.instructions :
                call.out.instructions[n].CRD.name = n

\* C13 as amended: a decision set has one instruction for every distinct
\* name of the goal list and no other, holding the last goal entry of that
\* name; it has as many instructions as the goal list has entries when the
\* names of the goal list are distinct.
C13_OneInstructionPerGoalName ==
    Planned =>
        /\ DOMAIN call.out.instructions = NamesOf(call.goal)
        /\ Cardinality(DOMAIN call.out.instructions) = Cardinality(NamesOf(call.goal))
        /\ \A n \in DOMAIN call.out.instructions :
                /\ call.out.instructions[n].CRD.name = n
                /\ call.out.instructions[n].CRD = LastOfName(call.goal, n)
        /\ Cardinality(NamesOf(call.goal)) = Len(call.goal) =>
                Cardinality(DOMAIN call.out.instructions) = Len(call.goal)

\* A decision set for two goal definitions of different names, made while
\* the cluster holds a definition that is no goal definition.
C13_Witness ==
    /\ Planned
    /\ Len(call.goal) = 2
    /\ Cardinality(DOMAIN call.out.instructions) = 2
    /\ NameC \in NamesOf(call.existing)

\* The existing definition instruction n of the returned decision set was
\* compared with, or the zero value.
ExistingOf(n) == LookupExisting(call.existing, n)

\* C14: in a decision set, an instruction that is not Excluded is
\* VersionDifferent whenever VersionEqual(existing-or-zero, goal) is false
\* (whether or not the spec differs too), SpecDifferent exactly when the
\* version compares equal and SpecEqual is false, NoDifference exactly when
\* both compare equal; an Excluded instruction keeps NoDifference.
C14_DiffClassification ==
    Planned =>
        \A n \in DOMAIN call.out.instructions :
            LET i == call.out.instructions[n]
                versionEqual == VersionEqual(ExistingOf(n), i.CRD)
                specEqual == SpecEqual(ExistingOf(n), i.CRD)
            IN IF i.FilterResult = "Excluded"
               THEN i.DiffResult = "NoDifference"
               ELSE /\ ~versionEqual => i.DiffResult = "VersionDifferent"
                    /\ i.DiffResult = "SpecDifferent" <=> (versionEqual /\ ~specEqual)
                    /\ i.DiffResult = "NoDifference" <=> (versionEqual /\ specEqual)

\* A decision set with an instruction whose spec and version both differ
\* from the existing definition of its name, classified VersionDifferent.
C14_Witness ==
    /\ Planned
    /\ \E n \in DOMAIN call.out.instructions :
        /\ n \in NamesOf(call.existing)
        /\ ~VersionEqual(ExistingOf(n), call.out.instructions[n].CRD)
        /\ ~SpecEqual(ExistingOf(n), call.out.instructions[n].CRD)
        /\ call.out.instructions[n].DiffResult = "VersionDifferent"

\* Some pattern of the pattern spec of the call matches the name.
PatternMatchesName(n) ==
    \E k \in DOMAIN call.patterns : GlobMatch(call.patterns[k], n)

\* C15: in a decision set, an instruction is Excluded exactly when its
\* goal name is neither the name of an existing definition nor matched by
\* a pattern; a goal definition present in existing is never Excluded, and
\* with an empty pattern spec one absent from existing is Excluded.
C15_ExcludedIffUnmatched ==
    Planned =>
        \A n \in DOMAIN call.out.instructions :
            LET i == call.out.instructions[n]
            IN /\ i.FilterResult = "Excluded" <=>
                      (n \notin NamesOf(call.existing) /\ ~PatternMatchesName(n))
               /\ n \in NamesOf(call.existing) => i.FilterResult # "Excluded"
               /\ (call.patterns = <<>> /\ n \notin NamesOf(call.existing)) =>
                      i.FilterResult = "Excluded"
               /\ i.FilterResult \in {"Excluded", "MatchedExistingCRD", "MatchedPattern"}

\* A decision set made with a pattern spec in which one goal definition is
\* kept because it exists in the cluster, no pattern matching it, and
\* another because a pattern matches it.
C15_Witness ==
    /\ Planned
    /\ call.patterns # <<>>
    /\ \E n \in DOMAIN call.out.instructions, m \in DOMAIN call.out.instructions :
        /\ n \in NamesOf(call.existing)
        /\ ~PatternMatchesName(n)
        /\ call.out.instructions[n].FilterResult = "MatchedExistingCRD"
        /\ m \notin NamesOf(call.existing)
        /\ call.out.instructions[m].FilterResult = "MatchedPattern"

\* C16: a goal definition absent from existing and matched by a pattern is
\* MatchedPattern and is compared with the zero-valued definition: it is in
\* the applicable subset if its spec differs from the zero-value spec (or
\* its version label from none), and is NoDifference otherwise.
C16_AbsentMatchedComparedWithZero ==
    Planned =>
        \A n \in DOMAIN call.out.instructions :
            LET i == call.out.instructions[n]
            IN (n \notin NamesOf(call.existing) /\ PatternMatchesName(n)) =>
                  /\ i.FilterResult = "MatchedPattern"
                  /\ ~SpecEqual(ZeroCRD, i.CRD) =>
                        /\ i.DiffResult # "NoDifference"
                        /\ i \in filterInstallationInstructions(call.out.instructions)
                  /\ (SpecEqual(ZeroCRD, i.CRD) /\ VersionEqual(ZeroCRD, i.CRD)) =>
                        /\ i.DiffResult = "NoDifference"
                        /\ i \notin filterInstallationInstructions(call.out.instructions)

\* A decision set in which a goal definition absent from existing and
\* matched by a pattern, its spec not the zero value, is to be applied.
C16_Witness ==
    /\ Planned
    /\ \E n \in DOMAIN call.out.instructions :
        /\ n \notin NamesOf(call.existing)
        /\ PatternMatchesName(n)
        /\ call.out.instructions[n].CRD.spec # ZeroSpec
        /\ call.out.instructions[n].FilterResult = "MatchedPattern"
        /\ call.out.instructions[n] \in filterInstallationInstructions(call.out.instructions)

\* Some pattern of the pattern spec of the call matches no goal definition.
SomePatternUnmatched ==
    \E k \in DOMAIN call.patterns :
        \A n \in NamesOf(call.goal) : ~GlobMatch(call.patterns[k], n)

\* C17: a call of the planner fails exactly when the pattern spec is not
\* empty and one of its patterns matches no goal definition, other
\* patterns matching or not; a failed call returns no decision set.
C17_UnmatchedPatternFails ==
    (call.fn = "DetermineCRDsToInstallOrUpgrade" /\ call.done) =>
        /\ call.out.err <=> (call.patterns # <<>> /\ SomePatternUnmatched)
        /\ call.out.err => call.out.instructions = <<>>
        /\ call.patterns = <<>> => ~call.out.err

\* A call failed although one pattern of its spec matches a goal
\* definition.
C17_Witness ==
    /\ call.fn = "DetermineCRDsToInstallOrUpgrade"
    /\ call.done
    /\ call.out.err
    /\ \E k \in DOMAIN call.patterns :
            \E n \in NamesOf(call.goal) : GlobMatch(call.patterns[k], n)

\* A call of VersionEqual has returned.
VersionCompared == call.fn = "VersionEqual" /\ call.done

\* The definition carries the version label: its label map is there and
\* has the key, whatever the value.
CarriesVersion(crd) ==
    ~IsNil(crd.labels) /\ HasLabel(crd, ServiceOperatorVersionLabel)

\* C19: VersionEqual(a, b) is true when neither a nor b carries the version
\* label (label map absent, or present without the key), false when
\* exactly one carries it (whatever its value), and otherwise the equality
\* of the two label values.
C19_VersionEqualByLabelPresence ==
    VersionCompared =>
        /\ (~CarriesVersion(call.a) /\ ~CarriesVersion(call.b)) => call.out
        /\ (CarriesVersion(call.a) # CarriesVersion(call.b)) => ~call.out
        /\ (CarriesVersion(call.a) /\ CarriesVersion(call.b)) =>
              (call.out <=> (LabelValue(call.a, ServiceOperatorVersionLabel)
                              = LabelValue(call.b, ServiceOperatorVersionLabel)))

\* C20: VersionEqual is reflexive and symmetric: the result of a call on
\* (a, b) is the result on (b, a), and is true when a and b are the same
\* definition.
C20_VersionEqualReflexiveSymmetric ==
    VersionCompared =>
        /\ call.out = VersionEqual(call.b, call.a)
        /\ call.a = call.b => call.out
        /\ VersionEqual(call.a, call.a) /\ VersionEqual(call.b, call.b)

\* VersionEqual returned false for a definition without a label map and
\* one with a version label.
C20_Witness ==
    /\ VersionCompared
    /\ IsNil(call.a.labels)
    /\ CarriesVersion(call.b)
    /\ ~call.out

\* The return statements applyCRDs can take once LeaseAcquired.Wait() has
\* returned: the recheck found nothing, the list call failed, the plan
\* failed, a write failed.
PathsAfterAcquired == {"recheckEmpty", "listErr", "replanErr", "writeErr"}

\* C23: with a lease, once the 'acquired' signal was observed Apply has
\* returned to its caller only after cancel() was called and the 'released'
\* signal was observed, whichever return statement it took; and from the
\* moment it takes one of them the leadership context is cancelled.
C23_ReturnAfterCancelAndRelease ==
    useLease =>
        \A r \in Replicas :
            /\ rep[r].path \in PathsAfterAcquired =>
                  (rep[r].acquired /\ rep[r].engineCancelled)
            /\ (rep[r].pc = "returned" /\ rep[r].path \in PathsAfterAcquired) =>
                  (rep[r].engineCancelled /\ rep[r].released
                      /\ rep[r].elector = "stopped")
            /\ (rep[r].pc = "returned" /\ rep[r].acquired) =>
                  rep[r].path \in PathsAfterAcquired

\* With a lease, Apply returned the error of a failed write, a definition
\* written before it, after the lease was released.
C23_Witness ==
    /\ useLease
    /\ \E r \in Replicas :
        /\ rep[r].pc = "returned"
        /\ rep[r].path = "writeErr"
        /\ rep[r].written # {}
        /\ rep[r].ret = "err"
        /\ rep[r].released
        /\ ~rep[r].exited

\* The names of the goal entries of the call for which at least one
\* comparator of the call returns false on the existing entry of that name,
\* or the zero value, and the goal entry.
SomeComparatorFalse ==
    {call.goal[i].name : i \in
        {j \in DOMAIN call.goal :
            \E k \in DOMAIN call.comparators :
                ~RunNamedComparator(call.comparators[k].cmp,
                                    LookupExisting(call.existing, call.goal[j].name),
                                    call.goal[j])}}

\* C21: FindNonMatching, called with one comparator or more on a goal list
\* of distinct names, returns exactly the goal entries for which at least
\* one comparator returns false, which are the goal names FindMatching
\* does not return.
C21_NonMatchingIsComplement ==
    (/\ call.fn = "FindNonMatchingCRDs"
     /\ call.done
     /\ call.comparators # <<>>
     /\ Cardinality(NamesOf(call.goal)) = Len(call.goal)) =>
        /\ DOMAIN call.out.result = SomeComparatorFalse
        /\ DOMAIN call.out.result =
              NamesOf(call.goal)
                \ DOMAIN FindMatchingCRDs(call.existing, call.goal, call.comparators)

\* C24: a call of SpecEqual or SpecEqualIgnoreConversionWebhook, made
\* directly or through FindMatching or FindNonMatching, leaves the
\* definitions the caller holds as they were before the call.
C24_ComparatorsLeaveCallerData ==
    /\ (call.fn \in {"SpecEqual", "SpecEqualIgnoreConversionWebhook"} /\ call.done) =>
          (call.out.a = call.a /\ call.out.b = call.b)
    /\ (call.fn \in {"FindMatchingCRDs", "FindNonMatchingCRDs"} /\ call.done) =>
          (call.out.goal = call.goal /\ call.out.existing = call.existing)

\* A call of fixCRDNamespace has returned.
NamespaceFixed == call.fn = "fixCRDNamespace" /\ call.done

\* The places of the separator in an annotation value.
Separators(value) == {i \in DOMAIN value : value[i] = "/"}

\* The value the annotation is to have after the rewrite: "<target>/<name>"
\* when the value has exactly one separator, <name> being what follows it,
\* and the value itself otherwise.
RewrittenValue(value, namespace) ==
    IF Cardinality(Separators(value)) = 1
    THEN LET i == CHOOSE j \in Separators(value) : TRUE
         IN namespace \o <<"/">> \o SubSeq(value, i + 1, Len(value))
    ELSE value

\* C22: fixCRDNamespace returns its argument with the webhook service
\* namespace set to the target when a webhook service is configured, and
\* with the certificate-injection annotation rewritten to "<target>/<name>"
\* when its value has exactly one separator; a value with no separator or
\* with two or more, every other annotation and every other field are as
\* in the argument, and the argument itself is as it was before the call.
C22_NamespaceRewrite ==
    NamespaceFixed =>
        LET in == call.a
            res == call.out.result
        IN /\ res.name = in.name
           /\ res.labels = in.labels
           /\ res.spec.schema = in.spec.schema
           /\ IF HasWebhookService(in)
              THEN res.spec.conversion =
                      [in.spec.conversion EXCEPT
                          ![1].webhook[1].clientConfig[1].service[1].namespace
                              = call.namespace]
              ELSE res.spec.conversion = in.spec.conversion
           /\ IsNil(in.annotations) <=> IsNil(res.annotations)
           /\ ~IsNil(in.annotations) =>
                 /\ DOMAIN Deref(res.annotations) = DOMAIN Deref(in.annotations)
                 /\ \A k \in DOMAIN Deref(in.annotations) :
                       Deref(res.annotations)[k] =
                          IF k = certMgrInjectCAFromAnnotation
                          THEN RewrittenValue(Deref(in.annotations)[k], call.namespace)
                          ELSE Deref(in.annotations)[k]
           /\ call.out.a = call.a

\* A definition with a webhook service in namespace "o" and the annotation
\* "o/c" was rewritten for the target "ns", another annotation being kept.
C22_Witness ==
    /\ NamespaceFixed
    /\ HasWebhookService(call.a)
    /\ call.namespace = <<"n", "s">>
    /\ ~IsNil(call.a.annotations)
    /\ DOMAIN Deref(call.a.annotations) = {certMgrInjectCAFromAnnotation, "other"}
    /\ Deref(call.out.result.annotations)[certMgrInjectCAFromAnnotation]
          = <<"n", "s", "/", "c">>
    /\ call.out.result # call.a

====
